---- MODULE Spec2Model ----
(***************************************************************************)
(* Model of setup_ts.py: the build script that downloads a pinned node /   *)
(* yarn toolchain, compiles the three TypeScript modules and assembles     *)
(* nni_node by copy or by symlink.  The filesystem is the state; every     *)
(* function of the script is one action; build() is the sequence of calls  *)
(* of lines 48-57, followed by the position pc.                            *)
(***************************************************************************)
EXTENDS Integers, Sequences, FiniteSets, TLC

VARIABLES
    platform,                   \* sys.platform
    jupyter_lab_major_version,  \* line 36
    toolchain,                  \* toolchain/, toolchain/node/<exe>, toolchain/yarn
    nni_node,                   \* nni_node/ and its entries
    nni_package_json,           \* nni_node/package.json
    manager_package_json,       \* ts/nni_manager/package.json
    generated,                  \* kind of every path of generated_files
    jupyter_out,                \* ts/jupyter_extension/{build,build/extensions,dist}
    package_json,               \* ts/jupyter_extension/package.json
    package_default,            \* ts/jupyter_extension/.package_default.json
    pc,                         \* position inside build(), or its outcome
    release,                    \* argument of build()
    GLOBAL_TOOLCHAIN,           \* os.environ.get('GLOBAL_TOOLCHAIN')
    trace,                      \* what the current build() invocation did
    hist,                       \* how the previous build() invocation ended
    dl,                         \* the latest download_toolchain() calls
    cleaned                     \* set by clean(), reset by every other call

vars == <<platform, jupyter_lab_major_version, toolchain, nni_node,
          nni_package_json, manager_package_json, generated, jupyter_out,
          package_json, package_default, pc, release, GLOBAL_TOOLCHAIN,
          trace, hist, dl, cleaned>>

fsOther == <<nni_node, nni_package_json, manager_package_json, generated,
             jupyter_out, package_json, package_default>>

----------------------------------------------------------------------------
(* Bounds *)

MaxVerLen == 3      \* longest version string passed to build()

----------------------------------------------------------------------------
(* Strings are sequences of one-character strings.                         *)

VerChars == {"1", "."}

RECURSIVE StringsUpTo(_)
StringsUpTo(n) ==
    IF n = 0 THEN {<<>>}
    ELSE LET S == StringsUpTo(n - 1)
         IN  S \cup {Append(s, c) : s \in {t \in S : Len(t) = n - 1}, c \in VerChars}

Versions == StringsUpTo(MaxVerLen)

\* len(version.split('.')): one more than the number of dots
RECURSIVE CountDots(_)
CountDots(s) ==
    IF s = <<>> THEN 0
    ELSE (IF Head(s) = "." THEN 1 ELSE 0) + CountDots(Tail(s))

SplitLen(s) == CountDots(s) + 1

PadBroken(version) ==
    IF SplitLen(version) < 3 THEN version \o <<".", "0">> ELSE version

\* lines 234-235: while len(version.split('.')) < 3: version = version + '.0'
RECURSIVE PadVersion(_)
PadVersion(version) ==
    IF SplitLen(version) < 3
    THEN PadVersion(version \o <<".", "0">>)
    ELSE version

\* the version field of ts/nni_manager/package.json in the repository
SrcVersion == <<"9", "9", "9", ".", "0", ".", "0">>

----------------------------------------------------------------------------
(* Platform profile, lines 77-102 *)

Platforms == {"linux", "darwin", "win32"}

node_executable == IF platform = "win32" THEN "node.exe" ELSE "node"

----------------------------------------------------------------------------
(* The notebook-integration manifest as a JSON document.                   *)

LegacyBuild == "tsc && jupyter labextension link ."

BuildVals == {"jlpm build", LegacyBuild}
DepVals == {"^3.0.0", "^2.3.0"}
OutVals == {"dist", "build"}

\* scripts.build, dependencies['@jupyterlab/application'],
\* dependencies['@jupyterlab/launcher'], jupyterlab.outputDir
Docs == [build : BuildVals, application : DepVals, launcher : DepVals,
         outputDir : OutVals]

\* the content of a file that does not exist
NullDoc == [build |-> "", application |-> "", launcher |-> "",
            outputDir |-> ""]

\* the manifest of a checkout made for the current integration version
CurrentDoc == [build |-> "jlpm build",
               application |-> "^3.0.0", launcher |-> "^3.0.0",
               outputDir |-> "dist"]

\* byte layout of a JSON file: what json.dump(indent=2) writes, or another
Fmts == {"indent2", "other"}

\* lines 138-142
Patch(doc) ==
    [doc EXCEPT !.build = LegacyBuild, !.application = "^2.3.0",
                !.launcher = "^2.3.0", !.outputDir = "build"]

\* json.dump(doc, open(path, 'w'), indent=2)
JsonDump(doc) == [exists |-> TRUE, doc |-> doc, fmt |-> "indent2"]

NoFile == [exists |-> FALSE, doc |-> NullDoc, fmt |-> "indent2"]

Legacy == jupyter_lab_major_version = "2"


----------------------------------------------------------------------------
(* Records of what the calls did *)

\* calls: the functions build() has called; failedAt: the call or yarn step
\* whose exception left build(); yarnFail: the first yarn step of compile_ts
\* that exited non-zero; pre, preDefault: manifest and sidecar when build()
\* was entered; patched: update_package() rewrote the manifest;
\* prevStale, prevOrig: hist when build() was entered
NoTrace == [calls |-> <<>>, failedAt |-> "none", yarnFail |-> "none",
            pre |-> NoFile, preDefault |-> NoFile, patched |-> FALSE,
            prevStale |-> FALSE, prevOrig |-> NullDoc]

\* stale: the last build() that reached update_package() ended before
\* restore_package(); orig: the manifest document that build() started with
NoHist == [stale |-> FALSE, orig |-> NullDoc]

\* last, n, wrote: outcome of the latest download_toolchain(), the number of
\* requests.get calls it made, whether it went on to write under toolchain/;
\* prev, prevN: the same for the call before it, when nothing changed the
\* filesystem in between ("none" otherwise)
NoDl == [prev |-> "none", prevN |-> 0, last |-> "none", n |-> 0,
         wrote |-> FALSE]

NoToolchain == [dir |-> FALSE, node |-> FALSE, yarn |-> FALSE]

\* ran: clean() was the latest call; all: its clean_all; before: toolchain
\* when it was called; removed: the kinds of generated paths it met
NotCleaned == [ran |-> FALSE, all |-> FALSE, before |-> NoToolchain,
               removed |-> {}]

Called(f) == \E i \in 1..Len(trace.calls) : trace.calls[i] = f

Idle == pc \in {"idle", "done", "raised"}

\* the exception leaves build(): nothing after the raising call runs
Raise(where) ==
    /\ pc' = "raised"
    /\ hist' = IF Called("update_package")
               THEN [stale |-> Legacy /\ trace'.patched, orig |-> trace.pre.doc]
               ELSE hist

----------------------------------------------------------------------------
(* generated_files, lines 278-290 *)

generated_files == {
    "ts/nni_manager/dist",
    "ts/nni_manager/node_modules",
    "ts/webui/build",
    "ts/webui/node_modules",
    "ts/nni_manager/.nyc_output",
    "ts/nni_manager/coverage",
    "ts/nni_manager/exp_profile.json",
    "ts/nni_manager/metrics.json",
    "ts/nni_manager/trial_jobs.json" }

\* what a path can be: nothing, a regular file, a directory, a symlink to a
\* directory, a symlink whose target is missing
Kinds == {"absent", "file", "dir", "symlink", "dangling"}

CleanPathFileOnly(kind) ==
    IF kind = "file" THEN "absent"
    ELSE IF kind = "dir" THEN "absent"
    ELSE kind

\* lines 67-71: unlink a symlink or a file, rmtree a directory
CleanPath(kind) ==
    IF kind \in {"symlink", "dangling", "file"} THEN "absent"
    ELSE IF kind = "dir" THEN "absent"
    ELSE kind

\* a directory yarn (or tsc) writes its output into
YarnDir(kind) == IF kind \in {"dir", "symlink"} THEN kind ELSE "dir"

----------------------------------------------------------------------------
(* Initial state: a checkout in which nothing has been built *)

Fresh ==
    /\ toolchain = NoToolchain
    /\ nni_node = [exists |-> FALSE, entries |-> {}]
    /\ nni_package_json = [kind |-> "absent", version |-> <<>>]
    /\ manager_package_json = [version |-> SrcVersion]
    /\ generated = [p \in generated_files |-> "absent"]
    /\ jupyter_out = [build |-> FALSE, extensions |-> FALSE, dist |-> FALSE]
    /\ package_default = NoFile
    /\ pc = "idle"
    /\ release = <<>>
    /\ GLOBAL_TOOLCHAIN = FALSE
    /\ trace = NoTrace
    /\ hist = NoHist
    /\ dl = NoDl
    /\ cleaned = NotCleaned

Init ==
    /\ Fresh
    /\ platform \in Platforms
    /\ jupyter_lab_major_version \in {"2", "3"}
    /\ package_json \in [exists : {TRUE}, doc : Docs, fmt : Fmts]

\* every version string, one manifest
InitVersion ==
    /\ Fresh
    /\ platform \in Platforms
    /\ jupyter_lab_major_version \in {"2", "3"}
    /\ package_json = [exists |-> TRUE, doc |-> CurrentDoc, fmt |-> "other"]

\* one manifest, generated paths open to external changes
InitClean ==
    /\ Fresh
    /\ platform \in Platforms
    /\ jupyter_lab_major_version \in {"2", "3"}
    /\ package_json = [exists |-> TRUE, doc |-> CurrentDoc, fmt |-> "other"]

----------------------------------------------------------------------------
(* build(release), lines 48-57 *)

\* line 48
NeedsDownload(rel, gt) == rel # <<>> \/ ~gt

build(rel, gt) ==
    /\ Idle
    /\ release' = rel
    /\ GLOBAL_TOOLCHAIN' = gt
    /\ pc' = IF NeedsDownload(rel, gt) THEN "download_toolchain"
             ELSE "prepare_nni_node"
    /\ trace' = [NoTrace EXCEPT !.pre = package_json,
                                !.preDefault = package_default,
                                !.prevStale = hist.stale,
                                !.prevOrig = hist.orig]
    /\ cleaned' = NotCleaned
    /\ UNCHANGED <<platform, jupyter_lab_major_version, toolchain, fsOther,
                   hist, dl>>

----------------------------------------------------------------------------
(* download_toolchain(), lines 105-131 *)

ToolchainAlwaysFetch == FALSE

\* line 109
ToolchainPresent == toolchain.node

\* net: what the two requests.get / raise_for_status calls meet
download_toolchain(net) ==
    /\ pc = "download_toolchain" \/ Idle
    /\ LET out == IF ToolchainPresent THEN "returned"
                  ELSE IF net = "fail_node" THEN "raised_node"
                  ELSE IF net = "fail_yarn" THEN "raised_yarn"
                  ELSE "returned"
       IN  /\ toolchain' =
                 IF ToolchainPresent THEN toolchain
                 ELSE IF net = "fail_node"
                      THEN [toolchain EXCEPT !.dir = TRUE]
                 ELSE IF net = "fail_yarn"
                      THEN [toolchain EXCEPT !.dir = TRUE, !.node = TRUE]
                 ELSE [dir |-> TRUE, node |-> TRUE, yarn |-> TRUE]
           /\ dl' = [prev |-> dl.last, prevN |-> dl.n, last |-> out,
                     n |-> IF ToolchainPresent THEN 0
                           ELSE IF net = "fail_node" THEN 1 ELSE 2,
                     wrote |-> ~ToolchainPresent]
           /\ IF pc = "download_toolchain"
              THEN /\ trace' = [trace EXCEPT
                                  !.calls = Append(@, "download_toolchain"),
                                  !.failedAt = IF out = "returned" THEN "none"
                                               ELSE "download_toolchain"]
                   /\ IF out = "returned"
                      THEN pc' = "prepare_nni_node" /\ UNCHANGED hist
                      ELSE Raise("download_toolchain")
              ELSE /\ pc' = "idle"
                   /\ trace' = NoTrace
                   /\ UNCHANGED hist
    /\ cleaned' = NotCleaned
    /\ UNCHANGED <<platform, jupyter_lab_major_version, fsOther, release,
                   GLOBAL_TOOLCHAIN>>

----------------------------------------------------------------------------
(* prepare_nni_node(), lines 153-164 *)

prepare_nni_node ==
    /\ pc = "prepare_nni_node"
    /\ nni_package_json' = [kind |-> "absent", version |-> <<>>]
    /\ IF toolchain.node
       THEN /\ nni_node' = [exists |-> TRUE,
                            entries |-> {"__init__.py", node_executable}]
            /\ trace' = [trace EXCEPT !.calls = Append(@, "prepare_nni_node")]
            /\ pc' = "update_package"
            /\ UNCHANGED hist
       ELSE \* shutil.copy: FileNotFoundError
            /\ nni_node' = [exists |-> TRUE, entries |-> {"__init__.py"}]
            /\ trace' = [trace EXCEPT !.calls = Append(@, "prepare_nni_node"),
                                      !.failedAt = "prepare_nni_node"]
            /\ Raise("prepare_nni_node")
    /\ dl' = NoDl
    /\ UNCHANGED <<platform, jupyter_lab_major_version, toolchain,
                   manager_package_json, generated, jupyter_out, package_json,
                   package_default, release, GLOBAL_TOOLCHAIN, cleaned>>

----------------------------------------------------------------------------
(* update_package() / restore_package(), lines 133-151 *)

SidecarAfterMutation(manifest, sidecar) == JsonDump(Patch(manifest.doc))

SidecarKeepStale(manifest, sidecar) ==
    IF sidecar.exists THEN sidecar ELSE JsonDump(manifest.doc)

\* lines 135-136: the document is dumped before it is mutated
SidecarWritten(manifest, sidecar) == JsonDump(manifest.doc)

update_package ==
    /\ pc = "update_package"
    /\ IF ~Legacy
       THEN /\ UNCHANGED <<package_json, package_default, hist, dl>>
            /\ trace' = [trace EXCEPT !.calls = Append(@, "update_package")]
            /\ pc' = "compile_ts"
       ELSE /\ package_default' = SidecarWritten(package_json, package_default)
            /\ dl' = NoDl
            /\ package_json' = JsonDump(Patch(package_json.doc))
            /\ trace' = [trace EXCEPT !.calls = Append(@, "update_package"),
                                      !.patched = TRUE]
            /\ pc' = "compile_ts"
            /\ UNCHANGED hist
    /\ UNCHANGED <<platform, jupyter_lab_major_version, toolchain, nni_node,
                   nni_package_json, manager_package_json, generated,
                   jupyter_out, release, GLOBAL_TOOLCHAIN, cleaned>>

restore_package ==
    /\ pc = "restore_package"
    /\ trace' = [trace EXCEPT !.calls = Append(@, "restore_package")]
    /\ IF Legacy
       THEN /\ package_json' = JsonDump(package_default.doc)
            /\ package_default' = NoFile
            /\ dl' = NoDl
       ELSE UNCHANGED <<package_json, package_default, dl>>
    /\ pc' = "done"
    /\ hist' = NoHist
    /\ UNCHANGED <<platform, jupyter_lab_major_version, toolchain, nni_node,
                   nni_package_json, manager_package_json, generated,
                   jupyter_out, release, GLOBAL_TOOLCHAIN, cleaned>>


----------------------------------------------------------------------------
(* compile_ts(release), lines 167-192, and _yarn, lines 256-260 *)

YarnSteps == <<"manager_install", "manager_build", "webui_install",
               "webui_build", "jupyter_install", "jupyter_build">>

StepNo(step) == CHOOSE i \in 1..Len(YarnSteps) : YarnSteps[i] = step

\* the first _yarn call that exits non-zero, or "none"
YarnOutcomes == {YarnSteps[i] : i \in 1..Len(YarnSteps)} \cup {"none"}

\* step ran to completion when the first failure is at fail
Passed(step, fail) == fail = "none" \/ StepNo(step) < StepNo(fail)

\* line 260: the pinned yarn is toolchain/yarn/bin/<yarn_executable>
YarnRunnable == GLOBAL_TOOLCHAIN \/ toolchain.yarn

JupyterFailureAlwaysCaught(rel) == FALSE

\* lines 183-192: only a release build lets the failure propagate
JupyterFailureFatal(rel) == rel # <<>>

\* line 53
UsesCopy(rel) == rel # <<>> \/ platform = "win32"

compile_ts(fail) ==
    /\ pc = "compile_ts"
    /\ YarnRunnable \/ fail = "manager_install"
    /\ LET jup == fail \in {"jupyter_install", "jupyter_build"}
           fatal == fail # "none" /\ (~jup \/ JupyterFailureFatal(release))
       IN  /\ generated' = [generated EXCEPT
                 !["ts/nni_manager/node_modules"] =
                     IF Passed("manager_install", fail) THEN YarnDir(@) ELSE @,
                 !["ts/nni_manager/dist"] =
                     IF Passed("manager_build", fail) THEN YarnDir(@) ELSE @,
                 !["ts/webui/node_modules"] =
                     IF Passed("webui_install", fail) THEN YarnDir(@) ELSE @,
                 !["ts/webui/build"] =
                     IF Passed("webui_build", fail) THEN YarnDir(@) ELSE @]
           /\ jupyter_out' =
                 IF fail # "none" THEN jupyter_out
                 ELSE IF Legacy THEN [jupyter_out EXCEPT !.build = TRUE]
                 ELSE [jupyter_out EXCEPT !.dist = TRUE]
           /\ trace' = [trace EXCEPT
                          !.calls = Append(@, "compile_ts"),
                          !.yarnFail = fail,
                          !.failedAt = IF fatal THEN fail ELSE "none"]
           /\ IF fatal
              THEN Raise("compile_ts")
              ELSE /\ pc' = IF UsesCopy(release) THEN "copy_nni_node"
                            ELSE "symlink_nni_node"
                   /\ UNCHANGED hist
    /\ dl' = NoDl
    /\ UNCHANGED <<platform, jupyter_lab_major_version, toolchain, nni_node,
                   nni_package_json, manager_package_json, package_json,
                   package_default, release, GLOBAL_TOOLCHAIN, cleaned>>

----------------------------------------------------------------------------
(* symlink_nni_node(), lines 195-213, and _symlink, lines 263-267 *)

ManagerEntries == {"dist/*", "package.json", "node_modules"}

symlink_nni_node ==
    /\ pc = "symlink_nni_node"
    /\ nni_package_json' = [kind |-> "symlink",
                            version |-> manager_package_json.version]
    /\ LET base == nni_node.entries \cup ManagerEntries \cup {"static"}
           \* line 211 creates the link through nni_node/jupyter-extension:
           \* inside ts/jupyter_extension/build, which has to exist and must
           \* not hold an entry 'extensions' yet
           failed == Legacy /\ (~jupyter_out.build \/ jupyter_out.extensions)
       IN  /\ nni_node' = [nni_node EXCEPT !.entries =
                 IF Legacy \/ jupyter_out.dist
                 THEN base \cup {"jupyter-extension"} ELSE base]
           /\ jupyter_out' = IF Legacy /\ ~failed
                             THEN [jupyter_out EXCEPT !.extensions = TRUE]
                             ELSE jupyter_out
           /\ trace' = [trace EXCEPT
                          !.calls = Append(@, "symlink_nni_node"),
                          !.failedAt = IF failed THEN "symlink_nni_node"
                                       ELSE "none"]
           /\ IF failed
              THEN Raise("symlink_nni_node")
              ELSE pc' = "restore_package" /\ UNCHANGED hist
    /\ dl' = NoDl
    /\ UNCHANGED <<platform, jupyter_lab_major_version, toolchain,
                   manager_package_json, generated, package_json,
                   package_default, release, GLOBAL_TOOLCHAIN, cleaned>>

----------------------------------------------------------------------------
(* copy_nni_node(version), lines 216-248 *)

\* lines 232-237
VersionWritten(version) ==
    IF version # <<>> THEN PadVersion(version)
    ELSE manager_package_json.version

\* prod: whether the yarn --prod reinstall of line 240 exits with zero
copy_nni_node(prod) ==
    /\ pc = "copy_nni_node"
    /\ nni_package_json' = [kind |-> "file", version |-> VersionWritten(release)]
    /\ LET wantsJupyter == Legacy \/ release # <<>> \/ jupyter_out.dist
           hasJupyter == IF Legacy THEN jupyter_out.build ELSE jupyter_out.dist
           failed == IF ~prod THEN "yarn_prod"
                     ELSE IF wantsJupyter /\ ~hasJupyter THEN "copy_nni_node"
                     ELSE "none"
       IN  /\ nni_node' = [nni_node EXCEPT !.entries =
                 @ \cup {"dist/*", "package.json"}
                   \cup (IF prod THEN {"node_modules", "static"} ELSE {})
                   \cup (IF failed = "none" /\ wantsJupyter
                         THEN {"jupyter-extension"} ELSE {})]
           /\ trace' = [trace EXCEPT !.calls = Append(@, "copy_nni_node"),
                                     !.failedAt = failed]
           /\ IF failed # "none"
              THEN Raise("copy_nni_node")
              ELSE pc' = "restore_package" /\ UNCHANGED hist
    /\ dl' = NoDl
    /\ UNCHANGED <<platform, jupyter_lab_major_version, toolchain,
                   manager_package_json, generated, jupyter_out, package_json,
                   package_default, release, GLOBAL_TOOLCHAIN, cleaned>>

----------------------------------------------------------------------------
(* clean(clean_all), lines 59-74 *)

clean(clean_all) ==
    /\ Idle
    /\ nni_node' = [exists |-> FALSE, entries |-> {}]
    /\ nni_package_json' = [kind |-> "absent", version |-> <<>>]
    /\ generated' = [p \in generated_files |-> CleanPath(generated[p])]
    /\ toolchain' = IF clean_all THEN NoToolchain ELSE toolchain
    /\ cleaned' = [ran |-> TRUE, all |-> clean_all, before |-> toolchain,
                   removed |-> {generated[p] : p \in generated_files}
                                 \ {"absent"}]
    /\ pc' = "idle"
    /\ trace' = NoTrace
    /\ dl' = NoDl
    /\ UNCHANGED <<platform, jupyter_lab_major_version, manager_package_json,
                   jupyter_out, package_json, package_default, release,
                   GLOBAL_TOOLCHAIN, hist>>

\* the paths the unit tests of ts/nni_manager leave behind, lines 284-289
TestArtifacts == [p \in {"ts/nni_manager/.nyc_output",
                         "ts/nni_manager/coverage",
                         "ts/nni_manager/exp_profile.json",
                         "ts/nni_manager/metrics.json",
                         "ts/nni_manager/trial_jobs.json"} |->
                    IF p \in {"ts/nni_manager/.nyc_output",
                              "ts/nni_manager/coverage"}
                    THEN "dir" ELSE "file"]

\* between two calls the unit tests run
unit_test ==
    /\ Idle
    /\ \E p \in DOMAIN TestArtifacts : generated[p] # TestArtifacts[p]
    /\ generated' = [p \in generated_files |->
                        IF p \in DOMAIN TestArtifacts THEN TestArtifacts[p]
                        ELSE generated[p]]
    /\ pc' = "idle"
    /\ trace' = NoTrace
    /\ dl' = NoDl
    /\ cleaned' = NotCleaned
    /\ UNCHANGED <<platform, jupyter_lab_major_version, toolchain, nni_node,
                   nni_package_json, manager_package_json, jupyter_out,
                   package_json, package_default, release, GLOBAL_TOOLCHAIN,
                   hist>>

\* the dependency directories, which clean() may meet as links (line 68
\* tests is_symlink first)
Linkable == {"ts/nni_manager/node_modules", "ts/webui/node_modules"}

\* between two calls the developer puts a link at an output path; its
\* target is a directory ("symlink") or is missing ("dangling")
external_link(p, kind) ==
    /\ Idle
    /\ generated[p] # kind
    /\ generated' = [generated EXCEPT ![p] = kind]
    /\ pc' = "idle"
    /\ trace' = NoTrace
    /\ dl' = NoDl
    /\ cleaned' = NotCleaned
    /\ UNCHANGED <<platform, jupyter_lab_major_version, toolchain, nni_node,
                   nni_package_json, manager_package_json, jupyter_out,
                   package_json, package_default, release, GLOBAL_TOOLCHAIN,
                   hist>>

----------------------------------------------------------------------------
(* Specifications *)

NetOutcomes == {"ok", "fail_node", "fail_yarn"}

\* a development build and a release build
Releases == {<<>>, <<"1">>}

Steps ==
    \/ \E net \in NetOutcomes : download_toolchain(net)
    \/ prepare_nni_node
    \/ update_package
    \/ \E fail \in YarnOutcomes : compile_ts(fail)
    \/ symlink_nni_node
    \/ \E prod \in BOOLEAN : copy_nni_node(prod)
    \/ restore_package
    \/ \E clean_all \in BOOLEAN : clean(clean_all)

Next ==
    \/ \E rel \in Releases, gt \in BOOLEAN : build(rel, gt)
    \/ Steps

Spec == Init /\ [][Next]_vars

NextVersion ==
    \/ \E rel \in Versions, gt \in BOOLEAN : build(rel, gt)
    \/ Steps

SpecVersion == InitVersion /\ [][NextVersion]_vars

NextClean ==
    \/ \E rel \in Releases, gt \in BOOLEAN : build(rel, gt)
    \/ unit_test
    \/ \E p \in Linkable, kind \in {"symlink", "dangling"} : external_link(p, kind)
    \/ Steps

SpecClean == InitClean /\ [][NextClean]_vars


----------------------------------------------------------------------------
(* Properties *)

Ended == pc \in {"done", "raised"}

JupyterSteps == {"jupyter_install", "jupyter_build"}

Assembled == Called("copy_nni_node") \/ Called("symlink_nni_node")

\* C1: a development build (release empty) in which a yarn step of the
\* notebook-integration module fails, and every manager and UI step
\* succeeds, returns normally, has run an assembly step, and leaves the
\* manager and UI outputs in nni_node -- on every platform and for both
\* integration versions.
C1_DevBuildSurvivesJupyterFailure ==
    (Ended /\ release = <<>> /\ trace.yarnFail \in JupyterSteps
           /\ trace.failedAt # "yarn_prod")
        => /\ pc = "done"
           /\ Assembled
           /\ {"dist/*", "static"} \subseteq nni_node.entries

\* C2: a release build in which a yarn step of the notebook-integration
\* module fails ends with the exception, and neither copy_nni_node nor
\* symlink_nni_node is called: nni_node holds what prepare_nni_node put there.
C2_ReleaseJupyterFailureAborts ==
    (release # <<>> /\ trace.yarnFail \in JupyterSteps)
        => /\ pc = "raised"
           /\ trace.failedAt = trace.yarnFail
           /\ ~Assembled
           /\ nni_node.entries = {"__init__.py", node_executable}

C2_Witness ==
    /\ release # <<>>
    /\ trace.yarnFail = "jupyter_build"
    /\ pc = "raised"

\* C3: for the legacy version, once restore_package() has run after
\* update_package(), the manifest is field for field what it was before and
\* the sidecar is gone; for every other version neither call changes the
\* manifest or the sidecar.
C3_PatchRestoreRoundTrip ==
    /\ (Legacy /\ Called("restore_package"))
          => /\ package_json.exists
             /\ package_json.doc = trace.pre.doc
             /\ ~package_default.exists
    /\ (~Legacy /\ Called("update_package"))
          => /\ package_json = trace.pre
             /\ package_default = trace.preDefault

\* the round trip of a manifest the patch changes, written in another layout
C3_Witness ==
    /\ Legacy
    /\ pc = "done"
    /\ trace.patched
    /\ trace.pre.doc # Patch(trace.pre.doc)
    /\ trace.pre.fmt = "other"
    /\ package_json.doc = trace.pre.doc

\* C4: for the legacy version, when build() has ended, by returning or by an
\* exception, the sidecar is absent and the manifest is what it was when
\* build() was entered.
C4_SidecarNeverOutlivesBuild ==
    (Legacy /\ Ended)
        => /\ ~package_default.exists
           /\ package_json.doc = trace.pre.doc

\* C5: right after clean(), nni_node and every path of generated_files are
\* absent, whatever kind each was; the toolchain directory is as before when
\* clean_all is false and absent when it is true.
C5_CleanRemovesGenerated ==
    cleaned.ran
        => /\ ~nni_node.exists
           /\ \A p \in generated_files : generated[p] = "absent"
           /\ IF cleaned.all THEN toolchain = NoToolchain
              ELSE toolchain = cleaned.before

C5_Witness ==
    /\ cleaned.ran
    /\ ~cleaned.all
    /\ cleaned.before.dir
    /\ cleaned.removed = {"file", "dir", "symlink", "dangling"}

RECURSIVE DotZeros(_)
DotZeros(n) == IF n = 0 THEN <<>> ELSE <<".", "0">> \o DotZeros(n - 1)

Missing(k) == IF k < 3 THEN 3 - k ELSE 0

\* C7: the copy strategy, given a non-empty version of k dot-separated
\* parts, writes to nni_node/package.json that version followed by
\* max(0, 3-k) copies of '.0', and leaves ts/nni_manager/package.json alone.
C7_VersionPadding ==
    (Called("copy_nni_node") /\ release # <<>>)
        => /\ nni_package_json.kind = "file"
           /\ nni_package_json.version =
                  release \o DotZeros(Missing(SplitLen(release)))
           /\ manager_package_json.version = SrcVersion

C7_Witness ==
    /\ Called("copy_nni_node")
    /\ release = <<"1">>
    /\ nni_package_json.version = <<"1", ".", "0", ".", "0">>

\* C8: in every build(), prepare_nni_node is called after download_toolchain
\* has been called and finds the runtime executable it copies.
C8_PrepareAfterDownload ==
    Called("prepare_nni_node")
        => /\ trace.calls[1] = "download_toolchain"
           /\ trace.failedAt # "prepare_nni_node"

\* C9: a download_toolchain() call that returns normally leaves both
\* toolchain/node and toolchain/yarn present.
C9_ReturnedToolchainComplete ==
    dl.last = "returned" => (toolchain.node /\ toolchain.yarn)

\* C10: for the legacy version, when the previous build() ended between
\* update_package() and restore_package(), the next build()'s
\* update_package() stores the patched manifest in the sidecar, and when
\* that build() returns normally the manifest holds the patched document,
\* the sidecar is gone and the original document is in neither file.
C10_StaleSidecarNotRepaired ==
    (Legacy /\ trace.prevStale)
        => /\ (trace.patched /\ ~Ended /\ ~Called("restore_package"))
                 => package_default.doc = Patch(trace.prevOrig)
           /\ pc = "done"
                 => /\ package_json.doc = Patch(trace.prevOrig)
                    /\ ~package_default.exists
                    /\ trace.prevOrig # Patch(trace.prevOrig)
                          => package_json.doc # trace.prevOrig

C10_Witness ==
    /\ Legacy
    /\ trace.prevStale
    /\ pc = "done"
    /\ trace.prevOrig # Patch(trace.prevOrig)
    /\ package_json.doc = Patch(trace.prevOrig)

====
